---- MODULE Spec2Model ----
(***************************************************************************)
(* A model of the one-file Flask contact-form site ("Corchet Website",     *)
(* python.py): the messages table of site.db, the per-context sqlite       *)
(* connection kept in flask.g, the startup initialisation and the four     *)
(* routes /, /about, /contact and /api/stats.                              *)
(*                                                                         *)
(* Text values (form fields, query values, stored columns) are sequences   *)
(* of Unicode code points, so that str.strip() is computed and not         *)
(* assumed.  A dict (request.form, request.args) is a function whose       *)
(* domain is the set of keys that are present.                             *)
(*                                                                         *)
(* python.py binds BASE_TEMPLATE only: HOME_TEMPLATE, ABOUT_TEMPLATE and   *)
(* CONTACT_TEMPLATE are used (lines 88, 92, 114) and never assigned, so    *)
(* the evaluation of each of these names raises NameError.                 *)
(***************************************************************************)
EXTENDS Integers, Sequences, FiniteSets, TLC

\* ---------------------------------------------------------------- bounds
\* Request contexts that may be in flight at once (threads of the listener).
NumReq == 2
\* Rows the table may hold under SpecConc.
MaxRows == 2
\* Rows the table may hold under Spec (more than the home page's limit).
MaxHomeRows == 6
\* Last instant of the wall clock.
MaxClock == 1
\* Rows site.db may hold when the process starts.
MaxInitRows == 1

\* ------------------------------------------------------- program constants
\* LIMIT 5 of home()'s SELECT.
RECENT_LIMIT == 5

VARIABLES
    schema,      \* TRUE when site.db holds the messages table
    table,       \* the committed rows of messages, in insertion order
    seq,         \* sqlite_sequence of messages (AUTOINCREMENT high-water mark)
    writer,      \* the context whose connection holds the write lock, 0 if none
    pc,          \* per context: where its thread stands
    g,           \* per context: g._database, a connection handle, 0 if unset
    open,        \* the connection handles that are open
    stmt,        \* per context: the parameters of the INSERT being executed
    pending,     \* per context: rows inserted by its connection, not yet committed
    req,         \* per context: the request being handled
    local,       \* per context: the view's local variables (success, messages)
    resp,        \* per context: the response the handler returned
    now,         \* the wall clock (datetime.utcnow())
    nOpened,     \* per context: connections opened since the context was pushed
    nCommitted   \* valid contact submissions whose insert has been committed,
                 \* those of earlier runs of the program included

vars == <<schema, table, seq, writer, pc, g, open, stmt, pending, req, local,
          resp, now, nOpened, nCommitted>>

\* Context 0 is the app context of the startup initialisation; 1..NumReq are
\* the contexts of requests.
StartupCtx == 0
RequestCtxs == 1..NumReq
Ctxs == {StartupCtx} \cup RequestCtxs
Handles == 1..(NumReq + 1)

NoRequest == [method |-> "none"]
NoResponse == [kind |-> "none"]
NoLocals == <<>>

\* ------------------------------------------------------------ text values
\* The characters str.strip() removes when called without an argument:
\* \t \n \x0b \x0c \r, \x1c-\x1f, space, \x85, \xa0, U+1680, U+2000-U+200A,
\* U+2028, U+2029, U+202F, U+205F, U+3000.
Whitespace ==
    {9, 10, 11, 12, 13, 28, 29, 30, 31, 32, 133, 160, 5760} \cup (8192..8202)
        \cup {8232, 8233, 8239, 8287, 12288}

RECURSIVE lstrip(_)
lstrip(s) ==
    IF s = <<>> THEN s
    ELSE IF Head(s) \in Whitespace THEN lstrip(Tail(s)) ELSE s

RECURSIVE rstrip(_)
rstrip(s) ==
    IF s = <<>> THEN s
    ELSE IF s[Len(s)] \in Whitespace THEN rstrip(SubSeq(s, 1, Len(s) - 1)) ELSE s

\* Faulty variant of strip: only the leading whitespace is removed.
stripMutantLeftOnly(s) == lstrip(s)

\* str.strip()
strip(s) == rstrip(lstrip(s))

\* dict.get(key, default) of request.form and request.args
DictGet(d, key, default) == IF key \in DOMAIN d THEN d[key] ELSE default

\* datetime.utcnow().isoformat(): the text of the instant t
isoformat(t) == <<"T", t>>

\* ------------------------------------------------------------- responses
\* url_for('contact')
url_for_contact == "/contact"

\* The global names python.py binds (imports, assignments, functions).
ModuleGlobals ==
    {"Flask", "request", "g", "redirect", "url_for", "render_template_string",
     "sqlite3", "os", "datetime", "DATABASE", "SECRET_KEY", "DEBUG", "app",
     "get_db", "init_db", "close_connection", "BASE_TEMPLATE", "home", "about",
     "contact", "api_stats"}

\* render_template_string(template, **context): a 200 page made of the template
\* and the context values (base and year, which no handler computes from the
\* request or the table, are left out).
render_template_string(template, context) ==
    [kind |-> "html", status |-> 200, template |-> template, context |-> context]

\* redirect(location)
redirect(location) == [kind |-> "redirect", status |-> 302, location |-> location]

\* A dict returned by a view is sent as JSON.
jsonify(body) == [kind |-> "json", status |-> 200, body |-> body]

\* An exception that leaves a view: the framework's 500 response.
InternalServerError(exception) ==
    [kind |-> "error", status |-> 500, exception |-> exception]

\* return render_template_string(NAME, ...): the global NAME is evaluated
\* first, which raises NameError when the module does not bind it.
RenderPage(name, context) ==
    IF name \in ModuleGlobals
    THEN render_template_string(name, context)
    ELSE InternalServerError("NameError")

\* ------------------------------------------------------- database helpers
Range(s) == {s[i] : i \in DOMAIN s}

MaxOf(S) == IF S = {} THEN 0 ELSE CHOOSE m \in S : \A k \in S : k <= m

\* A connection sqlite3.connect() returns: one that is not open yet.
NewConnection == CHOOSE h \in Handles \ open : \A k \in Handles \ open : h <= k

\* get_db(): the context's connection, opened on first use.  conn is the
\* outcome of sqlite3.connect(): when it raises, g._database stays unset and
\* nothing is opened (the caller is left with the exception).
get_db(c, conn) ==
    IF g[c] = 0 /\ conn = "ok"
    THEN /\ g' = [g EXCEPT ![c] = NewConnection]
         /\ open' = open \cup {NewConnection}
         /\ nOpened' = [nOpened EXCEPT ![c] = @ + 1]
    ELSE UNCHANGED <<g, open, nOpened>>

\* Faulty variant of close_connection: the connection is never closed.
CloseMutantLeak(c) ==
    /\ open' = open
    /\ pending' = [pending EXCEPT ![c] = <<>>]
    /\ writer' = IF writer = c THEN 0 ELSE writer

\* close_connection(exception): closes the context's connection if one was
\* opened; db.close() rolls back what the connection inserted and did not
\* commit, and releases its write lock.
close_connection(c) ==
    /\ open' = IF g[c] # 0 THEN open \ {g[c]} ELSE open
    /\ pending' = [pending EXCEPT ![c] = <<>>]
    /\ writer' = IF writer = c THEN 0 ELSE writer

\* Faulty variant of AutoIncrement: the row count is taken for the next id.
AutoIncrementMutantReuse(t, s) == IF t = <<>> THEN 1 ELSE Len(t)

\* INTEGER PRIMARY KEY AUTOINCREMENT: one more than the largest id ever used.
AutoIncrement(t, s) == MaxOf({s} \cup {r.id : r \in Range(t)}) + 1

\* Faulty variant of OrderByIdDesc: ORDER BY id ASC.
RECURSIVE OrderByIdMutantAsc(_)
OrderByIdMutantAsc(S) ==
    IF S = {} THEN <<>>
    ELSE LET low == CHOOSE r \in S : \A q \in S : r.id <= q.id
         IN  <<low>> \o OrderByIdMutantAsc(S \ {low})

\* ORDER BY id DESC
RECURSIVE OrderByIdDesc(_)
OrderByIdDesc(S) ==
    IF S = {} THEN <<>>
    ELSE LET top == CHOOSE r \in S : \A q \in S : q.id <= r.id
         IN  <<top>> \o OrderByIdDesc(S \ {top})

\* Faulty variant of Limit: the LIMIT clause is missing.
LimitMutantNone(s, n) == s

\* LIMIT n
Limit(s, n) == IF Len(s) <= n THEN s ELSE SubSeq(s, 1, n)

\* ... FROM messages ORDER BY id DESC LIMIT n: the n newest rows, newest first
recent(t, n) == Limit(OrderByIdDesc(Range(t)), n)

\* SELECT name, message, created_at FROM messages ORDER BY id DESC LIMIT 5
SelectRecent(t) ==
    LET rows == recent(t, RECENT_LIMIT)
    IN  [i \in 1..Len(rows) |->
            [name |-> rows[i].name, message |-> rows[i].message,
             created_at |-> rows[i].created_at]]

\* Faulty variant of SelectCount: SELECT COUNT(DISTINCT name).
SelectCountMutantDistinct(t) == Cardinality({r.name : r \in Range(t)})

\* SELECT COUNT(*) as cnt FROM messages
SelectCount(t) == Len(t)

\* ------------------------------------------------------------------ Init
\* The rows an earlier run of the program left in site.db: k submissions,
\* stored with the ids 1..k.
StoredBefore(k) ==
    [i \in 1..k |-> [id |-> i, name |-> <<79, 108, 100>>, email |-> <<>>,
                     message |-> <<72, 105>>, created_at |-> isoformat(0)]]

\* The process starts: site.db may not hold the table yet, or hold it with the
\* rows of earlier runs; the startup context is about to run init_db().
Init ==
    /\ schema \in BOOLEAN
    /\ \E k \in 0..MaxInitRows :
          /\ (k > 0 => schema)
          /\ table = StoredBefore(k)
          /\ seq = k
          /\ nCommitted = k
    /\ writer = 0
    /\ pc = [c \in Ctxs |-> IF c = StartupCtx THEN "startup" ELSE "idle"]
    /\ g = [c \in Ctxs |-> 0]
    /\ open = {}
    /\ stmt = [c \in Ctxs |-> <<>>]
    /\ pending = [c \in Ctxs |-> <<>>]
    /\ req = [c \in Ctxs |-> NoRequest]
    /\ local = [c \in Ctxs |-> NoLocals]
    /\ resp = [c \in Ctxs |-> NoResponse]
    /\ now = 0
    /\ nOpened = [c \in Ctxs |-> 0]

\* --------------------------------------------------------------- startup
\* with app.app_context(): init_db() -- connect, CREATE TABLE IF NOT EXISTS,
\* commit.  When the connect (conn) or the script (io) raises, the exception
\* leaves the with block and the module: the context is unwound and the
\* process ends without serving a request.
\* (The second init_db() under __main__ runs only when site.db does not exist,
\* which this first one rules out.)
init_db(conn, io) ==
    /\ pc[StartupCtx] = "startup"
    /\ get_db(StartupCtx, conn)
    /\ schema' = IF conn = "ok" /\ io = "ok" THEN TRUE ELSE schema
    /\ pc' = [pc EXCEPT ![StartupCtx] =
                IF conn = "ok" /\ io = "ok" THEN "teardown" ELSE "unwind"]
    /\ UNCHANGED <<table, seq, writer, stmt, pending, req, local, resp, now,
                   nCommitted>>

\* The end of an app context: the teardown function runs and g is dropped.
\* The startup context ends in "done" (the module is loaded) or, unwound by
\* an exception, in "exited" (the process has ended).
Teardown(c) ==
    /\ pc[c] \in {"teardown", "unwind"}
    /\ close_connection(c)
    /\ g' = [g EXCEPT ![c] = 0]
    /\ nOpened' = [nOpened EXCEPT ![c] = 0]
    /\ stmt' = [stmt EXCEPT ![c] = <<>>]
    /\ req' = [req EXCEPT ![c] = NoRequest]
    /\ local' = [local EXCEPT ![c] = NoLocals]
    /\ resp' = [resp EXCEPT ![c] = NoResponse]
    /\ pc' = [pc EXCEPT ![c] = IF c # StartupCtx THEN "idle"
                               ELSE IF pc[c] = "unwind" THEN "exited" ELSE "done"]
    /\ UNCHANGED <<schema, table, seq, now, nCommitted>>

\* ---------------------------------------------------------------- routes
\* A request is dispatched to a free context once the module has been loaded.
Ready(c) == pc[StartupCtx] = "done" /\ pc[c] = "idle"

Request(method, path, args, form) ==
    [method |-> method, path |-> path, args |-> args, form |-> form]

\* Contexts with an INSERT that is neither committed nor abandoned.
Inserting == {c \in RequestCtxs : pc[c] \in {"insert", "commit"}}

\* A view's db = get_db() as the first step of a request: the connection is
\* opened and the view goes on to its SELECT, or the connect raises and the
\* view is left with a 500.
Connect(c, conn) ==
    /\ get_db(c, conn)
    /\ resp' = [resp EXCEPT ![c] =
                  IF conn = "ok" THEN @ ELSE InternalServerError("OperationalError")]
    /\ pc' = [pc EXCEPT ![c] = IF conn = "ok" THEN "select" ELSE "teardown"]

\* GET /, up to db = get_db().
home(c, conn) ==
    /\ Ready(c)
    /\ req' = [req EXCEPT ![c] = Request("GET", "/", <<>>, <<>>)]
    /\ Connect(c, conn)
    /\ UNCHANGED <<schema, table, seq, writer, stmt, pending, local, now,
                   nCommitted>>

\* GET /, from db.execute('SELECT ...') on: the rows are read (after whatever
\* wait for a lock sqlite imposes) and the page is rendered, or the SELECT
\* raises.
HomeExecute(c, io) ==
    /\ pc[c] = "select"
    /\ req[c].path = "/"
    /\ local' = [local EXCEPT ![c] =
                   IF io = "ok" THEN [messages |-> SelectRecent(table)]
                                ELSE NoLocals]
    /\ resp' = [resp EXCEPT ![c] =
                  IF io = "ok"
                  THEN RenderPage("HOME_TEMPLATE",
                           [title |-> "Home", messages |-> SelectRecent(table)])
                  ELSE InternalServerError("OperationalError")]
    /\ pc' = [pc EXCEPT ![c] = "teardown"]
    /\ UNCHANGED <<schema, table, seq, writer, g, open, stmt, pending, req, now,
                   nOpened, nCommitted>>

\* GET /about
about(c) ==
    /\ Ready(c)
    /\ req' = [req EXCEPT ![c] = Request("GET", "/about", <<>>, <<>>)]
    /\ resp' = [resp EXCEPT ![c] = RenderPage("ABOUT_TEMPLATE", [title |-> "About"])]
    /\ pc' = [pc EXCEPT ![c] = "teardown"]
    /\ UNCHANGED <<schema, table, seq, writer, g, open, stmt, pending, local, now,
                   nOpened, nCommitted>>

\* Faulty variant of SentIsOne: any sent parameter counts.
SentMutantPresent(args) == "sent" \in DOMAIN args

\* request.args.get('sent') == '1'
SentIsOne(args) == "sent" \in DOMAIN args /\ args["sent"] = <<49>>

\* Faulty variant of Invalid: the message is not tested.
InvalidMutantNameOnly(name, message) == name = <<>>

\* not name or not message
Invalid(name, message) == name = <<>> \/ message = <<>>

\* GET or POST /contact, up to the INSERT or to the return that renders the
\* form.  conn is the outcome of the connect of a valid POST (no other request
\* to /contact connects); cap bounds the rows the table may come to hold.
contact(c, method, args, form, conn, cap) ==
    /\ Ready(c)
    /\ req' = [req EXCEPT ![c] = Request(method, "/contact", args, form)]
    /\ LET name == strip(DictGet(form, "name", <<>>))
           email == strip(DictGet(form, "email", <<>>))
           message == strip(DictGet(form, "message", <<>>))
       IN  IF method = "POST" /\ ~Invalid(name, message)
           THEN /\ conn = "ok" => Len(table) + Cardinality(Inserting) < cap
                /\ get_db(c, conn)
                /\ stmt' = [stmt EXCEPT ![c] =
                              IF conn = "ok"
                              THEN <<name, email, message, isoformat(now)>>
                              ELSE <<>>]
                /\ local' = [local EXCEPT ![c] = [success |-> FALSE]]
                /\ resp' = [resp EXCEPT ![c] =
                              IF conn = "ok" THEN @
                              ELSE InternalServerError("OperationalError")]
                /\ pc' = [pc EXCEPT ![c] = IF conn = "ok" THEN "insert" ELSE "teardown"]
           ELSE /\ local' = [local EXCEPT ![c] = [success |-> SentIsOne(args)]]
                /\ resp' = [resp EXCEPT ![c] =
                              RenderPage("CONTACT_TEMPLATE",
                                  [title |-> "Contact", success |-> SentIsOne(args)])]
                /\ pc' = [pc EXCEPT ![c] = "teardown"]
                /\ UNCHANGED <<g, open, nOpened, stmt>>
    /\ UNCHANGED <<schema, table, seq, writer, pending, now, nCommitted>>

\* db.execute('INSERT INTO messages ...'): takes the write lock (waiting for it
\* while another connection holds it) and inserts the row in the connection's
\* transaction; or raises (the lock wait timed out, an I/O error).
ContactExecute(c, io) ==
    /\ pc[c] = "insert"
    /\ IF io = "ok"
       THEN /\ writer = 0
            /\ writer' = c
            /\ pending' = [pending EXCEPT ![c] =
                  <<[id |-> AutoIncrement(table, seq), name |-> stmt[c][1],
                     email |-> stmt[c][2], message |-> stmt[c][3],
                     created_at |-> stmt[c][4]]>>]
            /\ pc' = [pc EXCEPT ![c] = "commit"]
            /\ UNCHANGED resp
       ELSE /\ resp' = [resp EXCEPT ![c] = InternalServerError("OperationalError")]
            /\ pc' = [pc EXCEPT ![c] = "teardown"]
            /\ UNCHANGED <<writer, pending>>
    /\ stmt' = [stmt EXCEPT ![c] = <<>>]
    /\ UNCHANGED <<schema, table, seq, g, open, req, local, now, nOpened,
                   nCommitted>>

\* Faulty variant of ContactCommit: the redirect is missing and the handler
\* goes on to the return that renders the form.
ContactCommitMutantRender(c, io) ==
    /\ pc[c] = "commit"
    /\ IF io = "ok"
       THEN /\ table' = table \o pending[c]
            /\ seq' = MaxOf({seq} \cup {r.id : r \in Range(pending[c])})
            /\ pending' = [pending EXCEPT ![c] = <<>>]
            /\ writer' = 0
            /\ nCommitted' = nCommitted + 1
            /\ local' = [local EXCEPT ![c] = [success |-> TRUE]]
            /\ resp' = [resp EXCEPT ![c] =
                          RenderPage("CONTACT_TEMPLATE",
                              [title |-> "Contact", success |-> TRUE])]
       ELSE /\ resp' = [resp EXCEPT ![c] = InternalServerError("OperationalError")]
            /\ UNCHANGED <<table, seq, pending, writer, local, nCommitted>>
    /\ pc' = [pc EXCEPT ![c] = "teardown"]
    /\ UNCHANGED <<schema, g, open, stmt, req, now, nOpened>>

\* db.commit(), success = True, then return redirect(url_for('contact') +
\* '?sent=1'); or the commit raises and the row stays uncommitted until the
\* connection is closed.
ContactCommit(c, io) ==
    /\ pc[c] = "commit"
    /\ IF io = "ok"
       THEN /\ table' = table \o pending[c]
            /\ seq' = MaxOf({seq} \cup {r.id : r \in Range(pending[c])})
            /\ pending' = [pending EXCEPT ![c] = <<>>]
            /\ writer' = 0
            /\ nCommitted' = nCommitted + 1
            /\ local' = [local EXCEPT ![c] = [success |-> TRUE]]
            /\ resp' = [resp EXCEPT ![c] = redirect(url_for_contact \o "?sent=1")]
       ELSE /\ resp' = [resp EXCEPT ![c] = InternalServerError("OperationalError")]
            /\ UNCHANGED <<table, seq, pending, writer, local, nCommitted>>
    /\ pc' = [pc EXCEPT ![c] = "teardown"]
    /\ UNCHANGED <<schema, g, open, stmt, req, now, nOpened>>

\* GET /api/stats, up to db = get_db().
api_stats(c, conn) ==
    /\ Ready(c)
    /\ req' = [req EXCEPT ![c] = Request("GET", "/api/stats", <<>>, <<>>)]
    /\ Connect(c, conn)
    /\ UNCHANGED <<schema, table, seq, writer, stmt, pending, local, now,
                   nCommitted>>

\* GET /api/stats, from db.execute('SELECT COUNT(*) ...') on: the count is
\* read (after whatever wait for a lock sqlite imposes) and returned as JSON,
\* or the SELECT raises.
ApiStatsExecute(c, io) ==
    /\ pc[c] = "select"
    /\ req[c].path = "/api/stats"
    /\ resp' = [resp EXCEPT ![c] =
                  IF io = "ok"
                  THEN jsonify([messages |-> SelectCount(table)])
                  ELSE InternalServerError("OperationalError")]
    /\ pc' = [pc EXCEPT ![c] = "teardown"]
    /\ UNCHANGED <<schema, table, seq, writer, g, open, stmt, pending, req, local,
                   now, nOpened, nCommitted>>

\* The wall clock advances.
Tick ==
    /\ now < MaxClock
    /\ now' = now + 1
    /\ UNCHANGED <<schema, table, seq, writer, pc, g, open, stmt, pending, req,
                   local, resp, nOpened, nCommitted>>

\* ---------------------------------------------------------------- inputs
\* A dict over keys: opt[k] is {} when the key is absent, {v} when it is v.
MkDict(keys, opt) ==
    [k \in {k \in keys : opt[k] # {}} |-> CHOOSE v \in opt[k] : TRUE]

FormsOf(N, E, M) ==
    {MkDict({"name", "email", "message"}, [name |-> n, email |-> e, message |-> m]) :
        n \in N, e \in E, m \in M}

ArgsOf(S) == {MkDict({"sent"}, [sent |-> s]) : s \in S}

\* The outcome of a storage call (connect, execute, commit): it returns or
\* raises.
IO == {"ok", "fail"}

\* Query strings: none, ?sent=1, ?sent=0, ?sent=
SentInputs == {{}, {<<49>>}, {<<48>>}, {<<>>}}

\* Form fields of Spec.  name: absent, '', ' \t', '\x0c', 'A', '\xa0A\n'.
NameInputs == {{}, {<<>>}, {<<32, 9>>}, {<<12>>}, {<<65>>}, {<<160, 65, 10>>}}
\* email: absent, ' '.
EmailInputs == {{}, {<<32>>}}
\* message: absent, '\n', '\x0b ', 'Hi', '　Hi\r'.
MessageInputs ==
    {{}, {<<10>>}, {<<11, 8195>>}, {<<72, 105>>}, {<<12288, 72, 105, 13>>}}

\* Inputs of SpecConc.  Query strings: none, ?sent=1.
ConcSentInputs == {{}, {<<49>>}}
\* name: '', '\x1fA'; email: 'e\x85'; message: 'Hi'.
ConcNameInputs == {{<<>>}, {<<31, 65>>}}
ConcEmailInputs == {{<<101, 133>>}}
ConcMessageInputs == {{<<72, 105>>}}

\* ------------------------------------------------------------------ Next
\* One client: requests are handled one at a time, by context 1.
Next ==
    \/ \E conn \in IO, io \in IO : init_db(conn, io)
    \/ Teardown(StartupCtx)
    \/ Teardown(1)
    \/ \E conn \in IO : home(1, conn)
    \/ \E io \in IO : HomeExecute(1, io)
    \/ about(1)
    \/ \E args \in ArgsOf(SentInputs), conn \in IO :
            contact(1, "GET", args, <<>>, conn, MaxHomeRows)
    \/ \E args \in ArgsOf(SentInputs),
          form \in FormsOf(NameInputs, EmailInputs, MessageInputs), conn \in IO :
            contact(1, "POST", args, form, conn, MaxHomeRows)
    \/ \E io \in IO : ContactExecute(1, io)
    \/ \E io \in IO : ContactCommit(1, io)
    \/ \E conn \in IO : api_stats(1, conn)
    \/ \E io \in IO : ApiStatsExecute(1, io)
    \/ Tick

Spec == Init /\ [][Next]_vars

\* The listener dispatches requests concurrently, one context per request.
NextConc ==
    \/ \E conn \in IO, io \in IO : init_db(conn, io)
    \/ \E c \in Ctxs : Teardown(c)
    \/ \E c \in RequestCtxs, conn \in IO : home(c, conn)
    \/ \E c \in RequestCtxs, io \in IO : HomeExecute(c, io)
    \/ \E c \in RequestCtxs : about(c)
    \/ \E c \in RequestCtxs, args \in ArgsOf(ConcSentInputs), conn \in IO :
            contact(c, "GET", args, <<>>, conn, MaxRows)
    \/ \E c \in RequestCtxs, args \in ArgsOf(ConcSentInputs),
          form \in FormsOf(ConcNameInputs, ConcEmailInputs, ConcMessageInputs),
          conn \in IO :
            contact(c, "POST", args, form, conn, MaxRows)
    \/ \E c \in RequestCtxs, io \in IO : ContactExecute(c, io)
    \/ \E c \in RequestCtxs, io \in IO : ContactCommit(c, io)
    \/ \E c \in RequestCtxs, conn \in IO : api_stats(c, conn)
    \/ \E c \in RequestCtxs, io \in IO : ApiStatsExecute(c, io)
    \/ Tick

SpecConc == Init /\ [][NextConc]_vars

\* ---------------------------------------------------------------- claims
\* A form field that is missing or holds nothing but whitespace.
Blank(form, key) ==
    key \notin DOMAIN form \/ \A i \in DOMAIN form[key] : form[key][i] \in Whitespace

\* The columns the home page is given of a row.
Shown(r) == [name |-> r.name, message |-> r.message, created_at |-> r.created_at]

\* Context c has handled a request of this method and path and holds its response.
Answered(c, method, path) ==
    pc[c] = "teardown" /\ req[c].method = method /\ req[c].path = path

\* The request of context c ended in a storage call that raised.
StorageFailed(c) ==
    resp[c].kind = "error" /\ resp[c].exception = "OperationalError"

\* C1: a POST /contact whose name and message are non-empty after trimming (the
\* e-mail may be empty) and whose storage calls (connect, INSERT, commit)
\* succeed is answered only after its commit; that commit adds exactly one
\* row, which holds the trimmed fields and is the first element of recent(n)
\* for every n >= 1 (it has the largest identifier of the table).
C1_ValidPostStoresNewest ==
    /\ [][\A c \in RequestCtxs :
            (pc[c] = "commit" /\ pc'[c] = "teardown" /\ resp'[c].kind # "error") =>
                /\ Len(table') = Len(table) + 1
                /\ SelectCount(table') = SelectCount(table) + 1
                /\ \A n \in 1..(MaxHomeRows + 1) :
                      /\ recent(table', n)[1] = table'[Len(table')]
                      /\ recent(table', n)[1].name =
                            strip(DictGet(req[c].form, "name", <<>>))
                      /\ recent(table', n)[1].email =
                            strip(DictGet(req[c].form, "email", <<>>))
                      /\ recent(table', n)[1].message =
                            strip(DictGet(req[c].form, "message", <<>>))
                /\ \A r \in Range(table) : r.id < table'[Len(table')].id]_vars
    /\ [](\A c \in RequestCtxs :
            (/\ Answered(c, "POST", "/contact")
             /\ ~Blank(req[c].form, "name")
             /\ ~Blank(req[c].form, "message")
             /\ resp[c].kind # "error") =>
                /\ resp[c].kind = "redirect"
                /\ table # <<>>)
    /\ [][\A c \in RequestCtxs :
            (/\ pc[c] = "idle" /\ pc'[c] # "idle"
             /\ req'[c].method = "POST"
             /\ ~Blank(req'[c].form, "name")
             /\ ~Blank(req'[c].form, "message")
             /\ resp'[c].kind # "error") => pc'[c] = "insert"]_vars

C1_Witness ==
    /\ Answered(1, "POST", "/contact")
    /\ resp[1].kind = "redirect"
    /\ Blank(req[1].form, "email")
    /\ req[1].form["name"] = <<160, 65, 10>>
    /\ Len(table) >= MaxInitRows + 2

\* C2 as stated: a POST /contact whose name or message is missing or blank
\* leaves the table unchanged (nothing inserted, the count the same) and is
\* answered with the re-rendered contact form, not a redirect.
C2_InvalidPostRendersForm ==
    [][\A c \in RequestCtxs :
          (/\ pc[c] = "idle" /\ pc'[c] # "idle"
           /\ req'[c].method = "POST"
           /\ (Blank(req'[c].form, "name") \/ Blank(req'[c].form, "message"))) =>
              /\ table' = table
              /\ SelectCount(table') = SelectCount(table)
              /\ pending' = pending
              /\ pc'[c] = "teardown"
              /\ resp'[c].kind = "html"]_vars

\* C3: post-redirect-get.  A step that stores a message answers with a redirect
\* to /contact?sent=1 and never with a page; no step of a GET (of
\* /contact?sent=1 too, however often) changes the table or inserts a row; so
\* the table holds exactly one row per committed submission.
C3_PostRedirectGet ==
    /\ [][table' # table =>
            \E c \in RequestCtxs :
                /\ pc[c] = "commit"
                /\ resp'[c] = [kind |-> "redirect", status |-> 302,
                               location |-> "/contact?sent=1"]]_vars
    /\ [][\A c \in RequestCtxs :
            (pc'[c] # pc[c] /\ (req[c].method = "GET" \/ req'[c].method = "GET")) =>
                (/\ table' = table
                 /\ pending' = pending
                 /\ pc'[c] \in {"select", "teardown", "idle"})]_vars
    /\ [](Len(table) = nCommitted)
    /\ [][nCommitted' # nCommitted =>
            (nCommitted' = nCommitted + 1 /\ Len(table') = Len(table) + 1)]_vars

C3_Witness ==
    /\ Answered(1, "GET", "/contact")
    /\ req[1].args = [sent |-> <<49>>]
    /\ local[1].success
    /\ Len(table) = MaxInitRows + 1
    /\ nCommitted = Len(table)
    /\ table[Len(table)].name = <<65>>

\* C4 as stated: a GET /contact is answered with the rendered contact form,
\* whose success flag is true when the query string holds a "sent" marker and
\* false when it holds none.
C4_GetRendersSuccessFlag ==
    \A c \in RequestCtxs :
        Answered(c, "GET", "/contact") =>
            /\ resp[c].kind = "html"
            /\ resp[c].context.success = ("sent" \in DOMAIN req[c].args)

\* C5 as stated: with k messages stored, GET / (its SELECT succeeding) renders
\* a page that is given exactly min(5, k) messages: the i-th is the stored
\* message with exactly i - 1 larger identifiers (newest first); none when
\* k = 0.
C5_HomeShowsFiveNewest ==
    \A c \in RequestCtxs :
        (Answered(c, "GET", "/") /\ ~StorageFailed(c)) =>
            /\ resp[c].kind = "html"
            /\ LET shown == resp[c].context.messages
                   k == Len(table)
               IN  /\ Len(shown) = IF k < 5 THEN k ELSE 5
                   /\ \A i \in 1..Len(shown) :
                         \E r \in Range(table) :
                             /\ Cardinality({q \in Range(table) : q.id > r.id}) = i - 1
                             /\ shown[i] = Shown(r)

\* C6: under any interleaving of requests, the JSON that GET /api/stats returns
\* is {"messages": k} with k a natural number, the number of valid submissions
\* whose insert is committed when the count is read; the table holds one row
\* per committed submission (none lost, none twice) and no uncommitted one.
C6_StatsCountsCommitted ==
    /\ [][\A c \in RequestCtxs :
            (/\ pc[c] = "select" /\ pc'[c] = "teardown"
             /\ req[c].path = "/api/stats"
             /\ resp'[c].kind # "error") =>
                /\ resp'[c].kind = "json"
                /\ DOMAIN resp'[c].body = {"messages"}
                /\ resp'[c].body.messages \in Nat
                /\ resp'[c].body.messages = nCommitted]_vars
    /\ [](Len(table) = nCommitted)
    /\ [][nCommitted' # nCommitted =>
            (/\ nCommitted' = nCommitted + 1
             /\ Len(table') = Len(table) + 1
             /\ \E c \in RequestCtxs : pending[c] # <<>> /\ pending'[c] = <<>>)]_vars

C6_Witness ==
    /\ Answered(1, "GET", "/api/stats")
    /\ resp[1].kind = "json"
    /\ resp[1].body.messages = 1
    /\ table[1].name = <<65>>
    /\ pc[2] = "commit"
    /\ pending[2] # <<>>

\* C7: every stored message (and every inserted one awaiting its commit) has a
\* name and a body that are non-empty and neither start nor end with whitespace.
Trimmed(s) == s # <<>> /\ s[1] \notin Whitespace /\ s[Len(s)] \notin Whitespace

C7_StoredNameAndBodyNonEmpty ==
    \A r \in Range(table) \cup UNION {Range(pending[c]) : c \in Ctxs} :
        Trimmed(r.name) /\ Trimmed(r.message)

C7_Witness ==
    /\ Answered(1, "POST", "/contact")
    /\ resp[1].kind = "redirect"
    /\ req[1].form["name"] = <<160, 65, 10>>
    /\ req[1].form["message"] = <<12288, 72, 105, 13>>
    /\ table[Len(table)].name = <<65>>
    /\ table[Len(table)].message = <<72, 105>>

\* C8: the table is append-only with unique, strictly increasing identifiers:
\* no two stored messages share an identifier; a step either leaves the table
\* as it is or appends one row whose identifier is larger than every stored
\* one; stored rows are never changed or removed; no step of a GET changes
\* the table.
C8_AppendOnlyUniqueIds ==
    /\ [](\A i, j \in DOMAIN table : i < j => table[i].id < table[j].id)
    /\ [][\/ table' = table
          \/ /\ Len(table') = Len(table) + 1
             /\ SubSeq(table', 1, Len(table)) = table
             /\ \A r \in Range(table) : r.id < table'[Len(table')].id]_vars
    /\ [][(\E c \in RequestCtxs :
              /\ pc'[c] # pc[c]
              /\ (req[c].method = "GET" \/ req'[c].method = "GET")) => table' = table]_vars

C8_Witness ==
    /\ Len(table) = 2
    /\ table[1].id < table[2].id
    /\ table[1].name = <<65>>
    /\ table[2].name = <<65>>
    /\ Answered(2, "GET", "/")

\* C9: scoped connection acquisition.  A context opens at most one connection;
\* the open connections are exactly those held by the contexts that have not
\* ended yet, so none outlives its context (whether the request ended in a
\* redirect, a JSON body or an error, or was the startup initialisation); no
\* two contexts hold the same connection; a context at a storage call holds
\* an open connection, and one whose connect raised holds none.
C9_ScopedConnections ==
    /\ \A c \in Ctxs : nOpened[c] <= 1
    /\ open = {g[c] : c \in {d \in Ctxs : g[d] # 0}}
    /\ \A c \in Ctxs : pc[c] \in {"startup", "done", "exited", "idle"} => g[c] = 0
    /\ \A c, d \in Ctxs : (c # d /\ g[c] # 0) => g[c] # g[d]
    /\ \A c \in Ctxs : pc[c] \in {"select", "insert", "commit"} => g[c] \in open
    /\ \A c \in Ctxs :
          (pc[c] \in {"teardown", "unwind"} /\ nOpened[c] = 1) => g[c] \in open
    /\ \A c \in Ctxs : nOpened[c] = 0 => g[c] = 0

C9_Witness ==
    /\ pc[StartupCtx] = "done"
    /\ pc[1] = "teardown" /\ resp[1].kind = "error" /\ g[1] \in open
    /\ pc[2] = "teardown" /\ resp[2].kind = "error" /\ g[2] = 0
    /\ req[2].path = "/api/stats"
    /\ Cardinality(open) = 1
    /\ Len(table) = 2
    /\ table[2].name = <<65>>

\* C10 as stated (its last sentence): the success flag is never true for a
\* request that is not a GET and stored nothing.
C10_FailedPostNeverSuccess ==
    \A c \in RequestCtxs :
        (Answered(c, "POST", "/contact") /\ resp[c].kind # "redirect") =>
            ~local[c].success

====
